---- MODULE Spec2Model ----
(***************************************************************************)
(* Topology builder and hardware port remapper of the FAUCET Mininet test  *)
(* harness (clib/mininet_test_topo.py): FaucetSwitchTopo and               *)
(* FaucetStringOfDPSwitchTopo.                                             *)
(*                                                                         *)
(* Python values are modelled as follows.  A dict is a function whose      *)
(* DOMAIN is the set of keys.  A list is a sequence (index i of the code   *)
(* is index i+1 here).  A call that may raise returns a record whose err   *)
(* field names the exception ("" when it returns normally).  Datapath ids  *)
(* are positive integers and None is the value 0, which is falsy and       *)
(* differs from every dpid, as None does.                                  *)
(***************************************************************************)
EXTENDS Integers, Sequences, FiniteSets, TLC

\* ------------------------------------------------------------- bounds ----
MaxDps == 3       \* most switches in the dpids argument
MaxHosts == 2     \* most untagged hosts per switch
MaxLinks == 2     \* most links_per_host and most switch_to_switch_links
ExtraSerials == 4 \* serials requested beyond the prefix range (SpecSid)
MaxSeedLen == 3   \* longest port_order seed, and its largest value (SpecOrder)
MaxLength == 3    \* largest max_length (SpecOrder)
PortSpan == 4     \* ports queried lie within start_port +- PortSpan (SpecRemap)

\* ---------------------------------------------------- program constants --
None == 0
SWITCH_START_PORT == 5

\* id_chars: ''.join(sorted(string.ascii_letters + string.digits))
IdChars ==
    << "0", "1", "2", "3", "4", "5", "6", "7", "8", "9",
       "A", "B", "C", "D", "E", "F", "G", "H", "I", "J", "K", "L", "M",
       "N", "O", "P", "Q", "R", "S", "T", "U", "V", "W", "X", "Y", "Z",
       "a", "b", "c", "d", "e", "f", "g", "h", "i", "j", "k", "l", "m",
       "n", "o", "p", "q", "r", "s", "t", "u", "v", "w", "x", "y", "z" >>

\* ------------------------------------------------------ Python helpers ---
Ok(v) == [err |-> "", val |-> v]

Raise(e) == [err |-> e]

\* d.setdefault(k, [])
SetDefault(d, k) == IF k \in DOMAIN d THEN d ELSE d @@ (k :> << >>)

\* d[k] = v
DictSet(d, k, v) == (k :> v) @@ d

Min(S) == CHOOSE m \in S : \A o \in S : m <= o

\* sorted(S) for a collection of distinct integers
RECURSIVE Sorted(_)
Sorted(S) ==
    IF S = {} THEN << >> ELSE << Min(S) >> \o Sorted(S \ {Min(S)})

\* What indexing a str out of range raises; a list raises "IndexError"
StringIndexError == "IndexError: string index out of range"

\* seq[i] with Python's list indexing: i counts from 0, a negative i counts
\* from the end, anything else raises IndexError
PyIndex(seq, i) ==
    IF 0 <= i /\ i < Len(seq) THEN Ok(seq[i + 1])
    ELSE IF i < 0 /\ -Len(seq) <= i THEN Ok(seq[Len(seq) + i + 1])
    ELSE Raise("IndexError")

\* ---------------------------------------------------------- the state ----
VARIABLES
    args,               \* the arguments of the build call in progress
    pc,                 \* where the run is: a build position or a pure call
    err,                \* the exception that ended build ("" for none)
    served,             \* the serial allocator: the next serial it hands out
    hw_dpid, hw_ports, start_port, switch_to_switch_links, port_order,
    dpid_names, switch_dpids, switch_ports, switch_peer_links,
    mn_switches,        \* Topo.addSwitch calls: name -> class and dpid
    mn_hosts,           \* Topo.addHost calls: name -> class
    mn_links,           \* Topo.addLink calls, in the order they were made
    i,                  \* build's loop: position in dpids of the next switch
    first_switch, last_switch, next_index,
    ret,                \* the last call made on the object and its result
    procs               \* test processes that build at the same time

vars ==
    << args, pc, err, served, hw_dpid, hw_ports, start_port,
       switch_to_switch_links, port_order, dpid_names, switch_dpids,
       switch_ports, switch_peer_links, mn_switches, mn_hosts, mn_links, i,
       first_switch, last_switch, next_index, ret, procs >>

topo_vars ==
    << hw_dpid, hw_ports, start_port, switch_to_switch_links, port_order,
       dpid_names, switch_dpids, switch_ports, switch_peer_links,
       mn_switches, mn_hosts, mn_links >>

build_vars == << i, first_switch, last_switch, next_index >>

\* ------------------------------------------------------- Prefix codec ----
\* Mutant: the remainder is taken modulo one less than the alphabet
_get_sid_prefix_short_mod(ports_served) ==
    LET id_a == ports_served \div Len(IdChars)
        id_b == ports_served % (Len(IdChars) - 1)
        ca == PyIndex(IdChars, id_a)
        cb == PyIndex(IdChars, id_b)
    IN  IF ca.err # "" \/ cb.err # "" THEN Raise(StringIndexError)
        ELSE Ok(ca.val \o cb.val)

\* int(ports_served / len(id_chars)) is the floor of the quotient for the
\* serials of the model (non-negative and far below 2^53).
\* Mutant: both characters are taken from the quotient
_get_sid_prefix_hi_twice(ports_served) ==
    LET id_a == ports_served \div Len(IdChars)
        ca == IF id_a < Len(IdChars) THEN Ok(IdChars[id_a + 1])
              ELSE Raise(StringIndexError)
    IN  IF ca.err # "" THEN ca ELSE Ok(ca.val \o ca.val)

\* Mutant: the two characters are put together the other way round
_get_sid_prefix_swapped(ports_served) ==
    LET id_a == ports_served \div Len(IdChars)
        id_b == ports_served - (id_a * Len(IdChars))
        ca == PyIndex(IdChars, id_a)
        cb == PyIndex(IdChars, id_b)
    IN  IF ca.err # "" \/ cb.err # "" THEN Raise(StringIndexError)
        ELSE Ok(cb.val \o ca.val)

\* Mutant: the first index wraps around the alphabet
_get_sid_prefix_wraps(ports_served) ==
    LET id_a == ports_served \div Len(IdChars)
        id_b == ports_served - (id_a * Len(IdChars))
        ca == PyIndex(IdChars, id_a % Len(IdChars))
        cb == PyIndex(IdChars, id_b)
    IN  IF ca.err # "" \/ cb.err # "" THEN Raise(StringIndexError)
        ELSE Ok(ca.val \o cb.val)

_get_sid_prefix(ports_served) ==
    LET id_a == ports_served \div Len(IdChars)
        id_b == ports_served - (id_a * Len(IdChars))
        ca == PyIndex(IdChars, id_a)
        cb == PyIndex(IdChars, id_b)
    IN  IF ca.err # "" \/ cb.err # "" THEN Raise(StringIndexError)
        ELSE Ok(ca.val \o cb.val)

\* --------------------------------------------------------- Port order ----
\* A seed is [given |-> BOOLEAN, order |-> sequence]; given = FALSE is None.
NoSeed == [given |-> FALSE, order |-> << >>]

Seed(s) == [given |-> TRUE, order |-> s]

\* Mutant: range(len(port_order), max_length)
extend_port_order_short(seed, max_length) ==
    LET po == IF ~seed.given \/ seed.order = << >> THEN << >> ELSE seed.order
    IN  po \o [k \in 1..(max_length - Len(po)) |-> Len(po) + k - 1]

\* Mutant: the fill restarts at 0: range(0, max_length + 1 - len(port_order))
extend_port_order_from_zero(seed, max_length) ==
    LET po == IF ~seed.given \/ seed.order = << >> THEN << >> ELSE seed.order
    IN  po \o [k \in 1..(max_length + 1 - Len(po)) |-> k - 1]

extend_port_order(seed, max_length) ==
    LET po == IF ~seed.given \/ seed.order = << >> THEN << >> ELSE seed.order
    IN  po \o [k \in 1..(max_length + 1 - Len(po)) |-> Len(po) + k - 1]

\* ------------------------------------------------- Hardware remapping ----
peer_link(port, peer_dpid, peer_port) ==
    [port |-> port, peer_dpid |-> peer_dpid, peer_port |-> peer_port]

\* Mutant: the assertion comes before the dpid test
hw_remap_port_assert_first(dpid, port) ==
    IF hw_ports = << >> THEN Raise("AssertionError")
    ELSE IF dpid # hw_dpid THEN Ok(port)
    ELSE PyIndex(hw_ports, port - start_port)

\* Mutant: the offset is taken from SWITCH_START_PORT, not from start_port
hw_remap_port_default_start(dpid, port) ==
    IF dpid # hw_dpid THEN Ok(port)
    ELSE IF hw_ports = << >> THEN Raise("AssertionError")
    ELSE PyIndex(hw_ports, port - SWITCH_START_PORT)

\* Mutant: without hw_ports the port is returned as it is
hw_remap_port_no_assert(dpid, port) ==
    IF dpid # hw_dpid \/ hw_ports = << >> THEN Ok(port)
    ELSE PyIndex(hw_ports, port - start_port)

hw_remap_port(dpid, port) ==
    IF dpid # hw_dpid THEN Ok(port)
    ELSE IF hw_ports = << >> THEN Raise("AssertionError")
    ELSE PyIndex(hw_ports, port - start_port)

\* Mutant: both ends are remapped as ports of dpid
hw_remap_peer_link_same_dpid(dpid, link) ==
    LET port == hw_remap_port(dpid, link.port)
        peer_port == hw_remap_port(dpid, link.peer_port)
    IN  IF port.err # "" THEN port
        ELSE IF peer_port.err # "" THEN peer_port
        ELSE Ok(peer_link(port.val, link.peer_dpid, peer_port.val))

hw_remap_peer_link(dpid, link) ==
    LET port == hw_remap_port(dpid, link.port)
        peer_port == hw_remap_port(link.peer_dpid, link.peer_port)
    IN  IF port.err # "" THEN port
        ELSE IF peer_port.err # "" THEN peer_port
        ELSE Ok(peer_link(port.val, link.peer_dpid, peer_port.val))

\* [self.hw_remap_port(dpid, port) for port in ports]: the first exception
\* ends the comprehension
RECURSIVE RemapPorts(_, _, _)
RemapPorts(dpid, ports, acc) ==
    IF ports = << >> THEN Ok(acc)
    ELSE LET r == hw_remap_port(dpid, Head(ports))
         IN  IF r.err # "" THEN r
             ELSE RemapPorts(dpid, Tail(ports), Append(acc, r.val))

\* Mutant: the stored ports are returned as they are
dpid_ports_unmapped(dpid) ==
    IF dpid \notin DOMAIN dpid_names THEN Raise("KeyError")
    ELSE Ok(switch_ports[dpid_names[dpid]])

dpid_ports(dpid) ==
    IF dpid \notin DOMAIN dpid_names THEN Raise("KeyError")
    ELSE RemapPorts(dpid, switch_ports[dpid_names[dpid]], << >>)

\* [self.hw_remap_peer_link(dpid, link) for link in links]
RECURSIVE RemapPeerLinks(_, _, _)
RemapPeerLinks(dpid, links, acc) ==
    IF links = << >> THEN Ok(acc)
    ELSE LET r == hw_remap_peer_link(dpid, Head(links))
         IN  IF r.err # "" THEN r
             ELSE RemapPeerLinks(dpid, Tail(links), Append(acc, r.val))

dpid_peer_links(dpid) ==
    IF dpid \notin DOMAIN dpid_names THEN Raise("KeyError")
    ELSE LET name == dpid_names[dpid]
         IN  IF name \notin DOMAIN switch_peer_links THEN Raise("KeyError")
             ELSE RemapPeerLinks(dpid, switch_peer_links[name], << >>)

\* ------------------------------------------------------ Entity factory ---
\* '%1.1u' % (host_n + 1): the decimal digits of host_n + 1, at least one
_add_tagged_host(sid_prefix, host_n) == "t" \o sid_prefix \o ToString(host_n + 1)

\* Mutant: untagged hosts are named as tagged hosts are
_add_untagged_host_as_tagged(sid_prefix, host_n) ==
    "t" \o sid_prefix \o ToString(host_n + 1)

_add_untagged_host(sid_prefix, host_n) == "u" \o sid_prefix \o ToString(host_n + 1)

_add_extended_host(sid_prefix, host_n) == "e" \o sid_prefix \o ToString(host_n + 1)

\* addHost for each name of the list, with its class
AddHosts(hosts, names, cls) ==
    [nm \in DOMAIN hosts \cup {names[k] : k \in DOMAIN names} |->
        IF \E k \in DOMAIN names : names[k] = nm THEN cls ELSE hosts[nm]]

\* Mutant: the two maps are written after dpid has been remapped
_add_faucet_switch_maps_late(sid_prefix, dpid, hw, sd, dn, sw) ==
    LET switch_name == "s" \o sid_prefix
        remapped == hw # None /\ hw = dpid
        emulated == IF remapped THEN dpid + 1 ELSE dpid
    IN  [ name |-> switch_name,
          switch_dpids |-> DictSet(sd, switch_name, emulated),
          dpid_names |-> DictSet(dn, emulated, switch_name),
          mn_switches |-> DictSet(sw, switch_name,
              [ cls |-> IF remapped THEN "NoControllerFaucetSwitch"
                        ELSE "FaucetSwitch",
                dpid |-> emulated ]) ]

\* _add_faucet_switch: the name it returns and the three maps it writes
_add_faucet_switch(sid_prefix, dpid, hw, sd, dn, sw) ==
    LET switch_name == "s" \o sid_prefix
        remapped == hw # None /\ hw = dpid
    IN  [ name |-> switch_name,
          switch_dpids |-> DictSet(sd, switch_name, dpid),
          dpid_names |-> DictSet(dn, dpid, switch_name),
          mn_switches |-> DictSet(sw, switch_name,
              [ cls |-> IF remapped THEN "NoControllerFaucetSwitch"
                        ELSE "FaucetSwitch",
                dpid |-> IF remapped THEN dpid + 1 ELSE dpid ]) ]

\* ------------------------------------------------------- Link builder ----
\* The loops of _add_links: todo links still to add, the next at `index`
RECURSIVE AddLinksLoop(_, _, _)
AddLinksLoop(ports, index, todo) ==
    IF todo = 0 THEN [err |-> "", ports |-> ports, index |-> index]
    ELSE LET o == PyIndex(port_order, index)
         IN  IF o.err # "" THEN [err |-> o.err, ports |-> ports, index |-> index]
             ELSE AddLinksLoop(Append(ports, start_port + o.val), index + 1, todo - 1)

\* Mutant: the links go to the hosts from the last to the first
HostLinksBackwards(switch, hosts, links_per_host, ports) ==
    [k \in 1..Len(ports) |->
        [ node1 |-> switch,
          node2 |-> hosts[Len(hosts) - ((k - 1) \div links_per_host)],
          port1 |-> ports[k] ]]

\* The addLink calls of _add_links for the ports it assigned: the outer
\* loop takes the hosts in order, the inner loop makes links_per_host links
\* for each, so the k-th link (from 1) is that of host (k - 1) div
\* links_per_host
HostLinks(switch, hosts, links_per_host, ports) ==
    [k \in 1..Len(ports) |->
        [ node1 |-> switch,
          node2 |-> hosts[((k - 1) \div links_per_host) + 1],
          port1 |-> ports[k] ]]

\* Mutant: one link per host, whatever links_per_host
_add_links_one_each(sp, switch, hosts, links_per_host) ==
    LET sp0 == SetDefault(sp, switch)
        r == AddLinksLoop(sp0[switch], 0, Len(hosts))
    IN  [ err |-> r.err,
          switch_ports |-> [sp0 EXCEPT ![switch] = r.ports],
          index |-> r.index,
          links |-> HostLinks(switch, hosts, 1,
                              SubSeq(r.ports, Len(sp0[switch]) + 1, Len(r.ports))) ]

\* Mutant: the hosts are counted, not their links
_add_links_returns_hosts(sp, switch, hosts, links_per_host) ==
    LET sp0 == SetDefault(sp, switch)
        r == AddLinksLoop(sp0[switch], 0, Len(hosts) * links_per_host)
    IN  [ err |-> r.err,
          switch_ports |-> [sp0 EXCEPT ![switch] = r.ports],
          index |-> Len(hosts),
          links |-> HostLinks(switch, hosts, links_per_host,
                              SubSeq(r.ports, Len(sp0[switch]) + 1, Len(r.ports))) ]

_add_links(sp, switch, hosts, links_per_host) ==
    LET sp0 == SetDefault(sp, switch)
        r == AddLinksLoop(sp0[switch], 0, Len(hosts) * links_per_host)
    IN  [ err |-> r.err,
          switch_ports |-> [sp0 EXCEPT ![switch] = r.ports],
          index |-> r.index,
          links |-> HostLinks(switch, hosts, links_per_host,
                              SubSeq(r.ports, Len(sp0[switch]) + 1, Len(r.ports))) ]

\* ------------------------------------------------- Chain/ring builder ----
\* Mutant: both indices read from src
LinkIndicesSrcOnly(src, dst, ni) == << ni[src], ni[src] >>

\* Mutant: the two indices are read the other way round
LinkIndicesSwapped(src, dst, ni) == << ni[dst], ni[src] >>

\* index1, index2 = next_index[src], next_index[dst]
LinkIndices(src, dst, ni) == << ni[src], ni[dst] >>

\* Mutant: the record stored under dst is not turned around
MirrorLinkUnswapped(port1, dpid1, port2) == peer_link(port1, dpid1, port2)

\* The record addLinks stores under dst for the link stored under src as
\* peer_link(port1, dpid2, port2)
MirrorLink(port1, dpid1, port2) == peer_link(port2, dpid1, port1)

\* One pass of the loop of addLinks.  t carries switch_ports,
\* switch_peer_links and next_index; sd is switch_dpids.
AddLinksOnce(src, dst, sd, t) ==
    LET ix == LinkIndices(src, dst, t.next_index)
        o1 == PyIndex(port_order, ix[1])
        o2 == PyIndex(port_order, ix[2])
    IN  IF o1.err # "" \/ o2.err # "" THEN [t EXCEPT !.err = "IndexError"]
        ELSE LET port1 == start_port + o1.val
                 port2 == start_port + o2.val
                 sp1 == [t.switch_ports EXCEPT ![src] = Append(@, port1)]
                 sp2 == [sp1 EXCEPT ![dst] = Append(@, port2)]
                 pl1 == [t.switch_peer_links EXCEPT
                            ![src] = Append(@, peer_link(port1, sd[dst], port2))]
                 pl2 == [pl1 EXCEPT
                            ![dst] = Append(@, MirrorLink(port1, sd[src], port2))]
                 ni1 == [t.next_index EXCEPT ![src] = @ + 1]
                 ni2 == [ni1 EXCEPT ![dst] = @ + 1]
             IN  [t EXCEPT !.switch_ports = sp2, !.switch_peer_links = pl2,
                           !.next_index = ni2,
                           !.links = Append(@, [ node1 |-> src, node2 |-> dst,
                                                 port1 |-> port1,
                                                 port2 |-> port2 ])]

RECURSIVE AddLinksTimes(_, _, _, _, _)
AddLinksTimes(src, dst, sd, t, todo) ==
    IF todo = 0 \/ t.err # "" THEN t
    ELSE AddLinksTimes(src, dst, sd, AddLinksOnce(src, dst, sd, t), todo - 1)

addLinks(src, dst, sd, t) ==
    LET t0 == [t EXCEPT !.switch_peer_links = SetDefault(SetDefault(@, src), dst)]
    IN  IF src \notin DOMAIN sd \/ dst \notin DOMAIN sd
        THEN [t0 EXCEPT !.err = "KeyError"]
        ELSE AddLinksTimes(src, dst, sd, t0, switch_to_switch_links)

\* Mutant: the serial of the first pass is used in every pass
PassSerialOfFirstPass == served - (i - 1)

\* The serial a pass of build's loop works with: the reply to its own
\* request, serialno = get_serialno(ports_sock, test_name)
PassSerial == served

\* Mutant: every switch is linked to the first switch of the chain
PrevSwitchFirst == first_switch

\* The switch build links the new switch to: the one before it in dpids
PrevSwitch == last_switch

\* ------------------------------------------- arguments of the builds ----
\* dpids: pairwise distinct datapath ids, in ascending or descending order
DpidLists(n) == { [k \in 1..n |-> k], [k \in 1..n |-> n + 1 - k] }

\* The most ports a switch of a chain build can hold
MaxChainPorts == (1 + MaxHosts) * MaxLinks + 2 * MaxLinks

\* switch_map keys: too few for any switch, enough for every switch
ShortMap == {17, 3, 11}

FullMap == {2 * k + 11 : k \in 0..MaxChainPorts}

\* hw_dpid and switch_map: no hardware switch; one without its port map;
\* one with too few ports; one with enough ports, at either end of dpids
HwArgs ==
    { << None, {} >>, << 1, {} >>, << 1, ShortMap >>, << 1, FullMap >>,
      << 2, FullMap >> }

\* start_port and port_order: the defaults, another start, a seed
PortArgs ==
    { << SWITCH_START_PORT, NoSeed >>, << 1, NoSeed >>,
      << SWITCH_START_PORT, Seed(<< 2, 0, 1 >>) >> }

\* The allocator's next serial when build starts: fresh, or near the end of
\* the prefix range
SerialStarts == {0, Len(IdChars) * Len(IdChars) - 2}

ChainArgs ==
    { [ dpids |-> d, n_tagged |-> nt, n_untagged |-> nu, links_per_host |-> l,
        switch_to_switch_links |-> k, hw_dpid |-> hw[1], switch_map |-> hw[2],
        stack_ring |-> ring, start_port |-> po[1], port_order |-> po[2] ] :
      d \in UNION { DpidLists(n) : n \in 0..MaxDps },
      nt \in 0..1, nu \in 0..MaxHosts, l \in 0..MaxLinks, k \in 0..MaxLinks,
      hw \in HwArgs, ring \in BOOLEAN, po \in PortArgs }

\* No switch yet: first_switch, last_switch = None, None
NoSwitch == "None"

NoCall == [op |-> "none"]

\* -------------------------------------------------------------- Init -----
\* FaucetSwitchTopo.__init__ has made the three dicts; build has not run.
InitFields ==
    /\ dpid_names = << >>
    /\ switch_dpids = << >>
    /\ switch_ports = << >>
    /\ switch_peer_links = << >>
    /\ mn_switches = << >>
    /\ mn_hosts = << >>
    /\ mn_links = << >>
    /\ hw_dpid = None
    /\ hw_ports = << >>
    /\ start_port = SWITCH_START_PORT
    /\ switch_to_switch_links = 1
    /\ port_order = << >>
    /\ i = 1
    /\ first_switch = NoSwitch
    /\ last_switch = NoSwitch
    /\ next_index = << >>
    /\ err = ""
    /\ ret = NoCall

\* One process builds; no other process is looked at
InitTopo ==
    /\ InitFields
    /\ procs = << >>

\* The builds that start near the end of the prefix range are those without
\* hardware switch and with the default ports
Init ==
    /\ args \in ChainArgs
    /\ served \in SerialStarts
    /\ served # 0 =>
          /\ args.hw_dpid = None
          /\ args.start_port = SWITCH_START_PORT
          /\ args.port_order = NoSeed
    /\ pc = "build"
    /\ InitTopo

\* ------------------------------------------ FaucetStringOfDPSwitchTopo ---
\* build, up to its loop: the remap context, the port order, empty tables
BuildStart ==
    /\ pc = "build"
    /\ hw_dpid' = args.hw_dpid
    /\ hw_ports' = Sorted(args.switch_map)
    /\ start_port' = args.start_port
    /\ switch_to_switch_links' = args.switch_to_switch_links
    /\ LET max_ports == (args.n_tagged + args.n_untagged) * args.links_per_host
                            + 2 * args.switch_to_switch_links
       IN  port_order' = extend_port_order(args.port_order, max_ports)
    /\ switch_peer_links' = << >>
    /\ first_switch' = NoSwitch
    /\ last_switch' = NoSwitch
    /\ next_index' = << >>
    /\ i' = 1
    /\ pc' = IF Len(args.dpids) = 0 THEN "ring" ELSE "loop"
    /\ UNCHANGED << args, procs, err, served, dpid_names, switch_dpids, switch_ports,
                    mn_switches, mn_hosts, mn_links, ret >>

\* One pass of build's loop, for dpid = dpids[i]
BuildSwitch ==
    /\ pc = "loop"
    /\ served' = served + 1
    /\ LET dpid == args.dpids[i]
           sid == _get_sid_prefix(PassSerial)
       IN  IF sid.err # ""
           THEN /\ pc' = "failed"
                /\ err' = sid.err
                /\ UNCHANGED << topo_vars, build_vars >>
           ELSE LET tagged == [h \in 1..args.n_tagged |->
                                  _add_tagged_host(sid.val, h - 1)]
                    untagged == [h \in 1..args.n_untagged |->
                                    _add_untagged_host(sid.val, h - 1)]
                    sw == _add_faucet_switch(sid.val, dpid, args.hw_dpid,
                                             switch_dpids, dpid_names, mn_switches)
                    switch == sw.name
                    al == _add_links(switch_ports, switch, tagged \o untagged,
                                     args.links_per_host)
                    ni == DictSet(next_index, switch, al.index)
                    t0 == [ switch_ports |-> al.switch_ports,
                            switch_peer_links |-> switch_peer_links,
                            next_index |-> ni,
                            links |-> mn_links \o al.links,
                            err |-> al.err ]
                    t == IF al.err # "" \/ first_switch = NoSwitch THEN t0
                         ELSE addLinks(PrevSwitch, switch, sw.switch_dpids, t0)
                IN  /\ mn_hosts' = AddHosts(AddHosts(mn_hosts, tagged, "VLANHost"),
                                            untagged, "FaucetHost")
                    /\ switch_dpids' = sw.switch_dpids
                    /\ dpid_names' = sw.dpid_names
                    /\ mn_switches' = sw.mn_switches
                    /\ switch_ports' = t.switch_ports
                    /\ switch_peer_links' = t.switch_peer_links
                    /\ mn_links' = t.links
                    /\ next_index' = IF al.err # "" THEN next_index ELSE t.next_index
                    /\ err' = t.err
                    /\ IF t.err # ""
                       THEN /\ pc' = "failed"
                            /\ UNCHANGED << i, first_switch, last_switch >>
                       ELSE /\ first_switch' =
                                  IF first_switch = NoSwitch THEN switch
                                  ELSE first_switch
                            /\ last_switch' = switch
                            /\ i' = i + 1
                            /\ pc' = IF i = Len(args.dpids) THEN "ring" ELSE "loop"
                    /\ UNCHANGED << hw_dpid, hw_ports, start_port,
                                    switch_to_switch_links, port_order >>
    /\ UNCHANGED << args, procs, ret >>

\* A pass of build's loop whose request to the allocator fails: the
\* exception leaves build
BuildSwitchNoSerial ==
    /\ pc = "loop"
    /\ pc' = "failed"
    /\ err' = "AllocatorError"
    /\ UNCHANGED << args, procs, served, topo_vars, build_vars, ret >>

\* Mutant: the ring link starts at the loop's last switch
RingEndsLoopSwitch == << last_switch, last_switch >>

\* The two switches build hands to addLinks to close the ring
RingEnds == << first_switch, last_switch >>

\* After the loop: if stack_ring, close the ring; build returns
BuildRing ==
    /\ pc = "ring"
    /\ LET t0 == [ switch_ports |-> switch_ports,
                   switch_peer_links |-> switch_peer_links,
                   next_index |-> next_index,
                   links |-> mn_links,
                   err |-> "" ]
           t == IF args.stack_ring
                THEN addLinks(RingEnds[1], RingEnds[2], switch_dpids, t0)
                ELSE t0
       IN  /\ switch_ports' = t.switch_ports
           /\ switch_peer_links' = t.switch_peer_links
           /\ next_index' = t.next_index
           /\ mn_links' = t.links
           /\ err' = t.err
           /\ pc' = IF t.err # "" THEN "failed" ELSE "done"
    /\ UNCHANGED << args, procs, served, hw_dpid, hw_ports, start_port,
                    switch_to_switch_links, port_order, dpid_names,
                    switch_dpids, mn_switches, mn_hosts, i, first_switch,
                    last_switch, ret >>

\* ------------------------------------------------ queries after build ----
\* Mutant: dpid_ports writes the remapped ports back into switch_ports
DpidPortsCallInPlace ==
    /\ pc = "done"
    /\ \E dpid \in DOMAIN dpid_names :
          LET res == dpid_ports(dpid)
          IN  /\ ret' = [op |-> "dpid_ports", dpid |-> dpid, res |-> res]
              /\ switch_ports' =
                    IF res.err # "" THEN switch_ports
                    ELSE [switch_ports EXCEPT ![dpid_names[dpid]] = res.val]
    /\ UNCHANGED << args, procs, pc, err, served, hw_dpid, hw_ports, start_port,
                    switch_to_switch_links, port_order, dpid_names,
                    switch_dpids, switch_peer_links, mn_switches, mn_hosts,
                    mn_links, build_vars >>

DpidPortsCall ==
    /\ pc = "done"
    /\ \E dpid \in DOMAIN dpid_names :
          ret' = [op |-> "dpid_ports", dpid |-> dpid, res |-> dpid_ports(dpid)]
    /\ UNCHANGED << args, procs, pc, err, served, topo_vars, build_vars >>

DpidPeerLinksCall ==
    /\ pc = "done"
    /\ \E dpid \in DOMAIN dpid_names :
          ret' = [op |-> "dpid_peer_links", dpid |-> dpid,
                  res |-> dpid_peer_links(dpid)]
    /\ UNCHANGED << args, procs, pc, err, served, topo_vars, build_vars >>

Next ==
    \/ BuildStart
    \/ BuildSwitch
    \/ BuildSwitchNoSerial
    \/ BuildRing
    \/ DpidPortsCall
    \/ DpidPeerLinksCall

Spec == Init /\ [][Next]_vars

\* ------------------------------------------------------ the prefix codec -
\* Arguments of a build of no switch: the run makes no use of them
NoArgs ==
    [ dpids |-> << >>, n_tagged |-> 0, n_untagged |-> 0, links_per_host |-> 0,
      switch_to_switch_links |-> 1, hw_dpid |-> None, switch_map |-> {},
      stack_ring |-> FALSE, start_port |-> SWITCH_START_PORT,
      port_order |-> NoSeed ]

\* Serials with a prefix of their own: 62 * 62
PrefixRange == Len(IdChars) * Len(IdChars)

InitSid ==
    /\ args = NoArgs
    /\ served = 0
    /\ pc = "sid"
    /\ InitTopo

\* serialno = get_serialno(...); sid_prefix = self._get_sid_prefix(serialno)
SidPrefixCall ==
    /\ pc = "sid"
    /\ served < PrefixRange + ExtraSerials
    /\ served' = served + 1
    /\ ret' = [op |-> "_get_sid_prefix", serial |-> served,
               res |-> _get_sid_prefix(served)]
    /\ UNCHANGED << args, procs, pc, err, topo_vars, build_vars >>

NextSid == SidPrefixCall

SpecSid == InitSid /\ [][NextSid]_vars

\* ---------------------------------------------------------- port order ---
SeedValues == 0..MaxSeedLen

SeqsUpTo(S, n) == UNION { [1..m -> S] : m \in 0..n }

OrderSeeds == {NoSeed} \cup { Seed(o) : o \in SeqsUpTo(SeedValues, MaxSeedLen) }

InitOrder ==
    /\ args = NoArgs
    /\ served = 0
    /\ pc = "order"
    /\ InitTopo

ExtendPortOrderCall ==
    /\ pc = "order"
    /\ \E seed \in OrderSeeds, max_length \in 0..MaxLength :
          ret' = [op |-> "extend_port_order", seed |-> seed,
                  max_length |-> max_length,
                  res |-> extend_port_order(seed, max_length)]
    /\ UNCHANGED << args, procs, pc, err, served, topo_vars, build_vars >>

NextOrder == ExtendPortOrderCall

SpecOrder == InitOrder /\ [][NextOrder]_vars

\* ------------------------------------------------- the hardware remapper -
\* Builds of no switch that set the remap context: every hw_dpid with every
\* switch_map and start_port
RemapArgs ==
    { [NoArgs EXCEPT !.hw_dpid = hw, !.switch_map = m, !.start_port = sp] :
      hw \in {None, 1, 2}, m \in {{}, {7}, ShortMap},
      sp \in {SWITCH_START_PORT, 1} }

InitRemap ==
    /\ args \in RemapArgs
    /\ served = 0
    /\ pc = "build"
    /\ InitTopo

QueryDpids == 1..3

QueryPorts == (start_port - PortSpan)..(start_port + PortSpan)

QueryLinkPorts == {start_port - 1, start_port, start_port + 1, start_port + 3}

HwRemapPortCall ==
    /\ pc = "done"
    /\ \E dpid \in QueryDpids, port \in QueryPorts :
          ret' = [op |-> "hw_remap_port", dpid |-> dpid, port |-> port,
                  res |-> hw_remap_port(dpid, port)]
    /\ UNCHANGED << args, procs, pc, err, served, topo_vars, build_vars >>

HwRemapPeerLinkCall ==
    /\ pc = "done"
    /\ \E dpid \in QueryDpids, port \in QueryLinkPorts,
          peer_dpid \in QueryDpids, peer_port \in QueryLinkPorts :
          LET link == peer_link(port, peer_dpid, peer_port)
          IN  ret' = [op |-> "hw_remap_peer_link", dpid |-> dpid, link |-> link,
                      res |-> hw_remap_peer_link(dpid, link)]
    /\ UNCHANGED << args, procs, pc, err, served, topo_vars, build_vars >>

NextRemap ==
    \/ BuildStart
    \/ BuildRing
    \/ HwRemapPortCall
    \/ HwRemapPeerLinkCall

SpecRemap == InitRemap /\ [][NextRemap]_vars

\* --------------------------------------- the four queries after a build --
\* Chain and ring builds of the switches 1 and 2, one untagged host each,
\* with every hardware and port argument
QueryArgs ==
    { [ dpids |-> d, n_tagged |-> 0, n_untagged |-> 1, links_per_host |-> 1,
        switch_to_switch_links |-> 1, hw_dpid |-> hw[1], switch_map |-> hw[2],
        stack_ring |-> ring, start_port |-> po[1], port_order |-> po[2] ] :
      d \in {<< 1, 2 >>}, hw \in HwArgs, ring \in BOOLEAN, po \in PortArgs }

InitQuery ==
    /\ args \in QueryArgs
    /\ served = 0
    /\ pc = "build"
    /\ InitTopo

NextQuery ==
    \/ BuildStart
    \/ BuildSwitch
    \/ BuildRing
    \/ DpidPortsCall
    \/ DpidPeerLinksCall
    \/ HwRemapPortCall
    \/ HwRemapPeerLinkCall

SpecQuery == InitQuery /\ [][NextQuery]_vars

\* ------------------------------------------ FaucetSwitchTopo.build -------
\* Arguments of FaucetSwitchTopo.build: switches with hosts, no
\* inter-switch links
SwitchArgs ==
    { [ dpids |-> d, n_tagged |-> nt, n_untagged |-> nu, n_extended |-> ne,
        links_per_host |-> l, hw_dpid |-> hw[1], switch_map |-> hw[2],
        start_port |-> po[1], port_order |-> po[2] ] :
      d \in UNION { DpidLists(n) : n \in 0..MaxDps },
      nt \in 0..1, nu \in 0..MaxHosts, ne \in 0..1, l \in 0..MaxLinks,
      hw \in HwArgs, po \in PortArgs }

InitSwitch ==
    /\ args \in SwitchArgs
    /\ served \in SerialStarts
    /\ pc = "sbuild"
    /\ InitTopo

\* FaucetSwitchTopo.build up to its loop
SwitchBuildStart ==
    /\ pc = "sbuild"
    /\ hw_dpid' = args.hw_dpid
    /\ hw_ports' = Sorted(args.switch_map)
    /\ start_port' = args.start_port
    /\ LET maxlength == args.n_tagged + args.n_untagged + args.n_extended
       IN  port_order' = extend_port_order(args.port_order, maxlength)
    /\ i' = 1
    /\ pc' = IF Len(args.dpids) = 0 THEN "done" ELSE "sloop"
    /\ UNCHANGED << args, procs, err, served, switch_to_switch_links,
                    dpid_names, switch_dpids, switch_ports, switch_peer_links,
                    mn_switches, mn_hosts, mn_links, first_switch,
                    last_switch, next_index, ret >>

\* One pass of the loop of FaucetSwitchTopo.build, for dpid = dpids[i]
SwitchBuildSwitch ==
    /\ pc = "sloop"
    /\ served' = served + 1
    /\ LET dpid == args.dpids[i]
           sid == _get_sid_prefix(served)
       IN  IF sid.err # ""
           THEN /\ pc' = "failed"
                /\ err' = sid.err
                /\ UNCHANGED << topo_vars, i >>
           ELSE LET tagged == [h \in 1..args.n_tagged |->
                                  _add_tagged_host(sid.val, h - 1)]
                    untagged == [h \in 1..args.n_untagged |->
                                    _add_untagged_host(sid.val, h - 1)]
                    extended == [h \in 1..args.n_extended |->
                                    _add_extended_host(sid.val, h - 1)]
                    sw == _add_faucet_switch(sid.val, dpid, args.hw_dpid,
                                             switch_dpids, dpid_names, mn_switches)
                    al == _add_links(switch_ports, sw.name,
                                     tagged \o untagged \o extended,
                                     args.links_per_host)
                IN  /\ mn_hosts' =
                          AddHosts(AddHosts(AddHosts(mn_hosts, tagged, "VLANHost"),
                                            untagged, "FaucetHost"),
                                   extended, "e_cls")
                    /\ switch_dpids' = sw.switch_dpids
                    /\ dpid_names' = sw.dpid_names
                    /\ mn_switches' = sw.mn_switches
                    /\ switch_ports' = al.switch_ports
                    /\ mn_links' = mn_links \o al.links
                    /\ err' = al.err
                    /\ IF al.err # ""
                       THEN pc' = "failed" /\ UNCHANGED i
                       ELSE /\ i' = i + 1
                            /\ pc' = IF i = Len(args.dpids) THEN "done"
                                     ELSE "sloop"
                    /\ UNCHANGED << hw_dpid, hw_ports, start_port,
                                    switch_to_switch_links, port_order,
                                    switch_peer_links >>
    /\ UNCHANGED << args, procs, first_switch, last_switch, next_index, ret >>

NextSwitch ==
    \/ SwitchBuildStart
    \/ SwitchBuildSwitch
    \/ DpidPortsCall

SpecSwitch == InitSwitch /\ [][NextSwitch]_vars

\* ------------------------------------- builds of several processes -------
\* The test processes that run build at the same time
Procs == {"p1", "p2"}

\* The shared allocator answers one request: the reply, and its next serial
get_serialno(ports_served) ==
    [serialno |-> ports_served, served |-> ports_served + 1]

\* The names one pass of build's loop makes with its prefix
PassNames(sid_prefix) ==
    {_add_tagged_host(sid_prefix, h) : h \in 0..(args.n_tagged - 1)}
        \cup {_add_untagged_host(sid_prefix, h) : h \in 0..(args.n_untagged - 1)}
        \cup {_add_extended_host(sid_prefix, h) : h \in 0..(args.n_extended - 1)}
        \cup {_add_faucet_switch(sid_prefix, 1, None, << >>, << >>, << >>).name}

\* Each process is to build todo[p] switches, with the same host counts
ConcArgs ==
    { [ todo |-> t, n_tagged |-> nt, n_untagged |-> nu, n_extended |-> ne ] :
      t \in [Procs -> 1..MaxDps], nt \in 0..1, nu \in 0..MaxHosts,
      ne \in 0..1 }

InitConc ==
    /\ args \in ConcArgs
    /\ served \in SerialStarts
    /\ pc = "conc"
    /\ InitFields
    /\ procs = [p \in Procs |->
                  [ pc |-> "request", todo |-> args.todo[p], serialno |-> None,
                    serials |-> << >>, prefixes |-> {}, names |-> {} ]]

\* Process p: serialno = get_serialno(ports_sock, test_name)
ProcRequest(p) ==
    /\ pc = "conc"
    /\ procs[p].pc = "request"
    /\ LET reply == get_serialno(served)
       IN  /\ served' = reply.served
           /\ procs' = [procs EXCEPT ![p].pc = "name",
                                     ![p].serialno = reply.serialno,
                                     ![p].serials = Append(@, reply.serialno)]
    /\ UNCHANGED << args, pc, err, topo_vars, build_vars, ret >>

\* Process p: sid_prefix = self._get_sid_prefix(serialno), and the hosts and
\* the switch of the pass
ProcName(p) ==
    /\ pc = "conc"
    /\ procs[p].pc = "name"
    /\ LET sid == _get_sid_prefix(procs[p].serialno)
       IN  procs' =
               IF sid.err # "" THEN [procs EXCEPT ![p].pc = "failed"]
               ELSE [procs EXCEPT
                        ![p].prefixes = @ \cup {sid.val},
                        ![p].names = @ \cup PassNames(sid.val),
                        ![p].todo = @ - 1,
                        ![p].pc = IF procs[p].todo = 1 THEN "done"
                                  ELSE "request"]
    /\ UNCHANGED << args, pc, err, served, topo_vars, build_vars, ret >>

NextConc == \E p \in Procs : ProcRequest(p) \/ ProcName(p)

SpecConc == InitConc /\ [][NextConc]_vars

\* ------------------------------------------ claims on the chain build ----
NumDps == Len(args.dpids)

\* The name of the switch built for position p of dpids (1-based)
SwitchAt(p) == dpid_names[args.dpids[p]]

\* Host ports of every switch: one per link of each tagged and untagged host
HostPorts == (args.n_tagged + args.n_untagged) * args.links_per_host

SeqContains(seq, x) == \E k \in DOMAIN seq : seq[k] = x

\* C1: after build completes, every peer_link(port, pd, pp) stored under a
\* switch with dpid d has its mirror peer_link(pp, d, port) in the peer-link
\* list of the switch with dpid pd.
PeerLinkMirroring ==
    pc = "done" =>
        \A a \in DOMAIN switch_peer_links :
            \A k \in DOMAIN switch_peer_links[a] :
                LET l == switch_peer_links[a][k]
                IN  /\ l.peer_dpid \in DOMAIN dpid_names
                    /\ dpid_names[l.peer_dpid] \in DOMAIN switch_peer_links
                    /\ SeqContains(switch_peer_links[dpid_names[l.peer_dpid]],
                                   peer_link(l.peer_port, switch_dpids[a], l.port))

\* A ring of three switches with two parallel links per group has been built
WitnessPeerLinkMirroring ==
    /\ pc = "done"
    /\ args.stack_ring
    /\ NumDps = 3
    /\ \A p \in 1..3 : Len(switch_peer_links[SwitchAt(p)]) = 4

\* C2 as stated: in every non-ring chain without tagged hosts, the first and
\* the last switch hold U*L + K ports and every interior switch U*L + 2K.
ChainPortCountsAsClaimed ==
    (pc = "done" /\ ~args.stack_ring /\ args.n_tagged = 0) =>
        \A p \in 1..NumDps :
            Len(switch_ports[SwitchAt(p)]) =
                args.n_untagged * args.links_per_host
                + (IF p = 1 \/ p = NumDps THEN 1 ELSE 2)
                  * args.switch_to_switch_links

\* C2, amended: in a non-ring chain of N >= 2 switches the first and the last
\* switch hold (T+U)*L + K ports and every interior switch (T+U)*L + 2K; the
\* only switch of a chain of one holds (T+U)*L ports.
ChainPortCounts ==
    (pc = "done" /\ ~args.stack_ring) =>
        \A p \in 1..NumDps :
            Len(switch_ports[SwitchAt(p)]) =
                HostPorts
                + (IF NumDps = 1 THEN 0
                   ELSE IF p = 1 \/ p = NumDps THEN 1 ELSE 2)
                  * args.switch_to_switch_links

\* A chain with an interior switch, tagged and untagged hosts, two links each
WitnessChainPortCounts ==
    /\ pc = "done"
    /\ ~args.stack_ring
    /\ NumDps = 3
    /\ args.n_tagged = 1 /\ args.n_untagged = 2
    /\ args.links_per_host = 2 /\ args.switch_to_switch_links = 2
    /\ Len(switch_ports[SwitchAt(2)]) = 10

\* What the step that closes the ring does to the tables of the finished
\* chain.  Build reads stack_ring nowhere else, so the tables before the
\* step are those of the same build without the ring.
RingStep ==
    /\ pc = "ring"
    /\ pc' = "done"
    /\ args.stack_ring
    /\ NumDps >= 3

RingGroupAdded ==
    LET K == args.switch_to_switch_links
        ends == {SwitchAt(1), SwitchAt(NumDps)}
    IN  /\ \A e \in ends :
              /\ Len(switch_peer_links'[e]) = Len(switch_peer_links[e]) + K
              /\ Len(switch_ports'[e]) = Len(switch_ports[e]) + K
              /\ SubSeq(switch_peer_links'[e], 1, Len(switch_peer_links[e]))
                    = switch_peer_links[e]
              /\ SubSeq(switch_ports'[e], 1, Len(switch_ports[e]))
                    = switch_ports[e]
        /\ \A p \in 1..NumDps :
              SwitchAt(p) \notin ends =>
                  /\ switch_peer_links'[SwitchAt(p)] = switch_peer_links[SwitchAt(p)]
                  /\ switch_ports'[SwitchAt(p)] = switch_ports[SwitchAt(p)]

HasPeer(links, dpid) == \E k \in DOMAIN links : links[k].peer_dpid = dpid

\* C8 as stated: the ring adds one group to both end switches, leaves the
\* others alone, and dpid_peer_links(first dpid) has an entry for the last dpid.
RingClosureAsClaimed ==
    [][RingStep =>
          /\ RingGroupAdded
          /\ dpid_peer_links(args.dpids[1])'.err = ""
          /\ HasPeer(dpid_peer_links(args.dpids[1])'.val, args.dpids[NumDps])]_vars

\* C8, amended: with stack_ring and N >= 3 the ring adds exactly
\* switch_to_switch_links peer links and ports to switch 0 and to switch N-1
\* and leaves every other switch unchanged; when switch_to_switch_links >= 1
\* the stored peer links of switch 0 have an entry whose peer_dpid is the last
\* dpid, and so has dpid_peer_links(first dpid) whenever it returns a list.
RingClosure ==
    [][RingStep =>
          /\ RingGroupAdded
          /\ args.switch_to_switch_links >= 1 =>
                /\ HasPeer(switch_peer_links'[SwitchAt(1)], args.dpids[NumDps])
                /\ dpid_peer_links(args.dpids[1])'.err = "" =>
                      HasPeer(dpid_peer_links(args.dpids[1])'.val,
                              args.dpids[NumDps])]_vars

\* A ring of three with two links per group is closed and switch 0, the
\* hardware switch, reports its ring links
WitnessRingClosure ==
    /\ pc = "done"
    /\ args.stack_ring
    /\ NumDps = 3
    /\ args.switch_to_switch_links = 2
    /\ Len(switch_peer_links[SwitchAt(1)]) = 4
    /\ args.dpids[1] = hw_dpid
    /\ dpid_peer_links(args.dpids[1]).err = ""
    /\ HasPeer(dpid_peer_links(args.dpids[1]).val, args.dpids[NumDps])

Scenario ==
    /\ NumDps = 3
    /\ args.n_tagged = 0 /\ args.n_untagged = 2
    /\ args.links_per_host = 1 /\ args.switch_to_switch_links = 1
    /\ ~args.stack_ring
    /\ args.start_port = 5
    /\ args.port_order = NoSeed

\* C9: a 3-switch chain with 2 untagged hosts, one link per host, one link
\* per group, no ring, start_port 5 and no seed leaves the port lists
\* [5,6,7], [5,6,7,8] and [5,6,7].
EndToEndScenario ==
    (pc = "done" /\ Scenario) =>
        /\ switch_ports[SwitchAt(1)] = << 5, 6, 7 >>
        /\ switch_ports[SwitchAt(2)] = << 5, 6, 7, 8 >>
        /\ switch_ports[SwitchAt(3)] = << 5, 6, 7 >>

WitnessEndToEndScenario ==
    /\ pc = "done"
    /\ Scenario
    /\ Len(switch_ports[SwitchAt(2)]) = 4

\* ----------------------------------------- claims on the pure functions --
\* C3: for every dpid other than hw_dpid, hw_remap_port(dpid, port) returns
\* port and does not raise, whatever hw_ports is and whether hw_dpid is set.
RemapIdentityOffHardware ==
    (ret.op = "hw_remap_port" /\ ret.dpid # hw_dpid) =>
        /\ ret.res.err = ""
        /\ ret.res.val = ret.port

\* A port of another datapath is remapped while the hardware datapath is set
\* and has no ports
WitnessRemapIdentityOffHardware ==
    /\ ret.op = "hw_remap_port"
    /\ hw_dpid # None
    /\ ret.dpid # hw_dpid
    /\ hw_ports = << >>
    /\ ret.res.err = ""

\* C4: on the hardware datapath with hw_ports non-empty,
\* hw_remap_port(hw_dpid, start_port + i) is the i-th (0-based) smallest key
\* of switch_map, for 0 <= i < len(hw_ports).
RemapHardwarePort ==
    (/\ ret.op = "hw_remap_port"
     /\ ret.dpid = hw_dpid
     /\ hw_ports # << >>
     /\ 0 <= ret.port - start_port
     /\ ret.port - start_port < Len(hw_ports)) =>
        /\ ret.res.err = ""
        /\ ret.res.val \in args.switch_map
        /\ Cardinality({q \in args.switch_map : q < ret.res.val})
              = ret.port - start_port
        /\ (ret.port = start_port => ret.res.val = hw_ports[1])

\* The last of three hardware ports is looked up from a start_port that is
\* not the default
WitnessRemapHardwarePort ==
    /\ ret.op = "hw_remap_port"
    /\ ret.dpid = hw_dpid
    /\ start_port # SWITCH_START_PORT
    /\ Len(hw_ports) = 3
    /\ ret.port = start_port + 2
    /\ ret.res.err = ""
    /\ ret.res.val = 17

\* C5: two different serials below 62 * 62 never get the same prefix.
PrefixInjective ==
    (ret.op = "_get_sid_prefix" /\ ret.serial < PrefixRange) =>
        /\ ret.res.err = ""
        /\ \A s2 \in 0..(ret.serial - 1) :
              _get_sid_prefix(s2).val # ret.res.val

\* The last serial of the range has got its prefix
WitnessPrefixInjective ==
    /\ ret.op = "_get_sid_prefix"
    /\ ret.serial = PrefixRange - 1
    /\ ret.res.err = ""
    /\ ret.res.val = "zz"

Max(a, b) == IF a >= b THEN a ELSE b

\* C6 as stated: extend_port_order(seed, n) has length n + 1 for every seed.
ExtendLengthAsClaimed ==
    ret.op = "extend_port_order" => Len(ret.res) = ret.max_length + 1

\* C6, amended: extend_port_order(seed, n) has length max(len(seed), n + 1):
\* exactly n + 1 for an absent, empty or at most n + 1 long seed, and the
\* seed's own length for a longer seed, which is returned as it is.
ExtendLength ==
    ret.op = "extend_port_order" =>
        /\ Len(ret.res) = Max(Len(ret.seed.order), ret.max_length + 1)
        /\ (Len(ret.seed.order) > ret.max_length + 1 => ret.res = ret.seed.order)

\* A seed longer than max_length + 1 has been extended
WitnessExtendLength ==
    /\ ret.op = "extend_port_order"
    /\ ret.seed.given
    /\ Len(ret.seed.order) = ret.max_length + 2
    /\ Len(ret.res) = ret.max_length + 2

\* C7: the result starts with the seed, in order, and every later element
\* is its own 0-based index: len(seed), len(seed) + 1, ...; an absent or
\* empty seed gives 0, 1, ..., n.
ExtendPrefixPreserving ==
    ret.op = "extend_port_order" =>
        /\ Len(ret.res) >= Len(ret.seed.order)
        /\ \A k \in 1..Len(ret.res) :
              ret.res[k] = IF k <= Len(ret.seed.order) THEN ret.seed.order[k]
                           ELSE k - 1
        /\ (~ret.seed.given \/ ret.seed.order = << >>) =>
              ret.res = [k \in 1..(ret.max_length + 1) |-> k - 1]

\* A seed of two ports has been extended by two more
WitnessExtendPrefixPreserving ==
    /\ ret.op = "extend_port_order"
    /\ ret.seed.given
    /\ ret.seed.order = << 3, 1 >>
    /\ ret.max_length = 3
    /\ ret.res = << 3, 1, 2, 3 >>

\* C10: hw_remap_peer_link(dpid, link) returns when both ends remap, with
\* port = hw_remap_port(dpid, link.port), peer_port =
\* hw_remap_port(link.peer_dpid, link.peer_port) and peer_dpid unchanged; an
\* end that is not on the hardware datapath keeps its port.
RemapPeerLinkEnds ==
    ret.op = "hw_remap_peer_link" =>
        LET near == hw_remap_port(ret.dpid, ret.link.port)
            far == hw_remap_port(ret.link.peer_dpid, ret.link.peer_port)
        IN  /\ (ret.res.err = "") = (near.err = "" /\ far.err = "")
            /\ ret.res.err = "" =>
                  /\ ret.res.val.port = near.val
                  /\ ret.res.val.peer_port = far.val
                  /\ ret.res.val.peer_dpid = ret.link.peer_dpid
                  /\ (ret.dpid # hw_dpid => ret.res.val.port = ret.link.port)
                  /\ (ret.link.peer_dpid # hw_dpid =>
                         ret.res.val.peer_port = ret.link.peer_port)

\* Only the peer is the hardware datapath: its port, and nothing else, changes
WitnessRemapPeerLinkEnds ==
    /\ ret.op = "hw_remap_peer_link"
    /\ ret.dpid # hw_dpid
    /\ ret.link.peer_dpid = hw_dpid
    /\ ret.res.err = ""
    /\ ret.res.val.port = ret.link.port
    /\ ret.res.val.peer_dpid = ret.link.peer_dpid
    /\ ret.res.val.peer_port # ret.link.peer_port

\* ------------------------------------- claims on the hardware datapath ---
\* The hardware datapath is a switch of the topology and has no hw_ports
HwPortsMissing ==
    /\ hw_dpid # None
    /\ hw_dpid \in DOMAIN dpid_names
    /\ hw_ports = << >>

\* The peer links stored under a switch name (none when it has no entry)
StoredPeerLinks(name) ==
    IF name \in DOMAIN switch_peer_links THEN switch_peer_links[name] ELSE << >>

\* A link stored under dpid has an end on the hardware datapath
TouchesHw(dpid, link) == dpid = hw_dpid \/ link.peer_dpid = hw_dpid

HardwareAttachmentSwitch ==
    \A name \in DOMAIN mn_switches :
        /\ name \in DOMAIN switch_dpids
        /\ LET dpid == switch_dpids[name]
           IN  /\ \E p \in DOMAIN args.dpids : args.dpids[p] = dpid
               /\ dpid \in DOMAIN dpid_names
               /\ dpid_names[dpid] = name
               /\ IF args.hw_dpid # None /\ dpid = args.hw_dpid
                  THEN /\ mn_switches[name].cls = "NoControllerFaucetSwitch"
                       /\ mn_switches[name].dpid = dpid + 1
                  ELSE /\ mn_switches[name].cls = "FaucetSwitch"
                       /\ mn_switches[name].dpid = dpid

\* A chain with the hardware switch and two software switches has been built
WitnessHardwareAttachmentSwitch ==
    /\ pc = "done"
    /\ Cardinality(DOMAIN mn_switches) = 3
    /\ \E name \in DOMAIN mn_switches :
          /\ mn_switches[name].cls = "NoControllerFaucetSwitch"
          /\ switch_dpids[name] = hw_dpid
          /\ mn_switches[name].dpid = hw_dpid + 1
    /\ \E name \in DOMAIN mn_switches : mn_switches[name].cls = "FaucetSwitch"

\* ------------------------------------------------- claims on names -------
\* Hosts FaucetSwitchTopo.build makes for each switch
HostsPerSwitch == args.n_tagged + args.n_untagged + args.n_extended

\* Passes of the loop of FaucetSwitchTopo.build that have made their names:
\* the finished ones, and one that failed in _add_links
NamingPasses == IF pc = "failed" /\ err = "IndexError" THEN i ELSE i - 1

\* C13: with pairwise distinct serials below 3844, one name is made per
\* switch and per host built: no two of the switch names s<prefix> and the
\* host names t<prefix><n+1>, u<prefix><n+1>, e<prefix><n+1> are equal.
NamesCollisionFree ==
    pc # "sbuild" =>
        /\ Cardinality(DOMAIN mn_switches) = NamingPasses
        /\ Cardinality(DOMAIN mn_hosts) = NamingPasses * HostsPerSwitch
        /\ DOMAIN mn_hosts \cap DOMAIN mn_switches = {}

\* Three switches have been built, each with hosts of the three kinds
WitnessNamesCollisionFree ==
    /\ pc = "done"
    /\ Cardinality(DOMAIN mn_switches) = 3
    /\ args.n_tagged = 1
    /\ args.n_untagged = 2
    /\ args.n_extended = 1
    /\ Cardinality(DOMAIN mn_hosts) = 12

\* C16: no read port_order[index] of a build is out of range (as claimed;
\* FaucetSwitchTopo.build with links_per_host = 2 reads past the end)
PortOrderCoversEveryPort == err # "IndexError"

\* C14: with one shared allocator that answers each request with a fresh
\* serial, under every interleaving of the requests no two processes derive
\* the same prefix, and no name is made by two processes.
ConcurrentBuildsDisjoint ==
    pc = "conc" =>
        \A p, q \in Procs :
            p # q =>
                /\ procs[p].prefixes \cap procs[q].prefixes = {}
                /\ procs[p].names \cap procs[q].names = {}

\* Two processes have each built two switches or more with hosts, and one
\* got a serial between two serials of the other
WitnessConcurrentBuildsDisjoint ==
    /\ pc = "conc"
    /\ \A p \in Procs :
          /\ procs[p].pc = "done"
          /\ Cardinality(procs[p].prefixes) >= 2
          /\ Cardinality(procs[p].names) >= 4
    /\ \E p, q \in Procs :
          /\ p # q
          /\ procs[p].serials[1] < procs[q].serials[1]
          /\ procs[q].serials[1] < procs[p].serials[2]

\* ------------------------------------------- claims on the queries -------
\* No link of the list has its far end on the hardware datapath
NoPeerOnHw(links) == \A k \in DOMAIN links : links[k].peer_dpid # hw_dpid

\* C15: dpid_ports(dpid) is the stored port list of the switch with
\* hw_remap_port(dpid, .) applied to each entry in order, and
\* dpid_peer_links(dpid) the stored peer-link list with
\* hw_remap_peer_link(dpid, .) applied to each entry (a remap that raises
\* makes the query raise; without a stored peer-link list the query raises
\* KeyError); off the hardware datapath the stored lists come back unchanged.
ProjectionsElementwise ==
    pc = "done" =>
        /\ ret.op = "dpid_ports" =>
              LET stored == switch_ports[dpid_names[ret.dpid]]
              IN  /\ IF \E k \in DOMAIN stored :
                            hw_remap_port(ret.dpid, stored[k]).err # ""
                     THEN ret.res.err \in {"AssertionError", "IndexError"}
                     ELSE /\ ret.res.err = ""
                          /\ ret.res.val = [k \in DOMAIN stored |->
                                hw_remap_port(ret.dpid, stored[k]).val]
                  /\ ret.dpid # hw_dpid => ret.res = Ok(stored)
        /\ ret.op = "dpid_peer_links" =>
              LET name == dpid_names[ret.dpid]
              IN  IF name \notin DOMAIN switch_peer_links
                  THEN ret.res.err = "KeyError"
                  ELSE LET stored == switch_peer_links[name]
                       IN  /\ IF \E k \in DOMAIN stored :
                                     hw_remap_peer_link(ret.dpid, stored[k]).err # ""
                              THEN ret.res.err \in {"AssertionError", "IndexError"}
                              ELSE /\ ret.res.err = ""
                                   /\ ret.res.val = [k \in DOMAIN stored |->
                                         hw_remap_peer_link(ret.dpid, stored[k]).val]
                           /\ (ret.dpid # hw_dpid /\ NoPeerOnHw(stored)) =>
                                 ret.res = Ok(stored)

\* The ports of the hardware switch have been asked for and came back
\* remapped, every one changed
WitnessProjectionsElementwise ==
    /\ pc = "done"
    /\ ret.op = "dpid_ports"
    /\ ret.dpid = hw_dpid
    /\ ret.res.err = ""
    /\ Len(ret.res.val) >= 3
    /\ \A k \in DOMAIN ret.res.val :
          ret.res.val[k] # switch_ports[dpid_names[ret.dpid]][k]

\* ---------------------------------------- claims on the prefix codec -----
\* The ASCII digits and letters in code-point order: 0-9, A-Z, a-z
AsciiDigits == << "0", "1", "2", "3", "4", "5", "6", "7", "8", "9" >>

AsciiUppercase ==
    << "A", "B", "C", "D", "E", "F", "G", "H", "I", "J", "K", "L", "M",
       "N", "O", "P", "Q", "R", "S", "T", "U", "V", "W", "X", "Y", "Z" >>

AsciiLowercase ==
    << "a", "b", "c", "d", "e", "f", "g", "h", "i", "j", "k", "l", "m",
       "n", "o", "p", "q", "r", "s", "t", "u", "v", "w", "x", "y", "z" >>

SortedAlphabet == AsciiDigits \o AsciiUppercase \o AsciiLowercase

\* C17: for 0 <= n < 3844, _get_sid_prefix(n) is alphabet[n div 62]
\* followed by alphabet[n mod 62], the alphabet being 0-9, A-Z, a-z.
PrefixFormula ==
    (ret.op = "_get_sid_prefix" /\ ret.serial < 3844) =>
        /\ Len(SortedAlphabet) = 62
        /\ ret.res = Ok(SortedAlphabet[(ret.serial \div 62) + 1]
                            \o SortedAlphabet[(ret.serial % 62) + 1])

\* Serial 10 * 62 + 36 has got the prefix "Aa"
WitnessPrefixFormula ==
    /\ ret.op = "_get_sid_prefix"
    /\ ret.serial = 656
    /\ ret.res = Ok("Aa")

\* ------------------------------------------ claims on port numbering -----
\* Positions of dpids whose pass of the loop has finished
BuiltPositions == IF pc \in {"loop", "ring", "done"} THEN 1..(i - 1) ELSE {}

\* C18: the k-th host link of a switch (k from 0, over all its hosts) gets
\* port start_port + port_order[k] and the ports are stored in that order;
\* _add_links returns hosts * links_per_host, which is the index of the
\* switch's first inter-switch port.
AddLinksSharedCounter ==
    \A p \in BuiltPositions :
        LET ports == switch_ports[SwitchAt(p)]
        IN  /\ Len(ports) >= HostPorts
            /\ \A k \in 0..(HostPorts - 1) :
                  ports[k + 1] = start_port + port_order[k + 1]
            /\ (pc = "loop" /\ i = 2) =>
                  /\ Len(ports) = HostPorts
                  /\ next_index[SwitchAt(1)] = HostPorts
            /\ Len(ports) > HostPorts =>
                  ports[HostPorts + 1] = start_port + port_order[HostPorts + 1]

\* A chain of three with four host links per switch and a seeded port order
\* has been built
WitnessAddLinksSharedCounter ==
    /\ pc = "done"
    /\ NumDps = 3
    /\ HostPorts = 4
    /\ args.port_order.given
    /\ switch_to_switch_links = 1
    /\ ~args.stack_ring
    /\ switch_ports[SwitchAt(2)] = << 7, 5, 6, 8, 9, 10 >>

\* C19: after a chain or ring build every switch's port list is contiguous:
\* its entry at index k is start_port + port_order[k], no index skipped or
\* used twice (as claimed; a ring of one switch links the switch to itself)
ContiguousNumbering ==
    pc = "done" =>
        \A p \in 1..NumDps :
            LET ports == switch_ports[SwitchAt(p)]
            IN  \A k \in DOMAIN ports : ports[k] = start_port + port_order[k]

\* The stored peer links numbered from..to all lead to dpid
AllLeadTo(links, from, to, dpid) ==
    \A k \in from..to : links[k].peer_dpid = dpid

\* C20: in a chain without ring of N switches with K links per group, the
\* only switch of a chain of one has no peer link, an end switch has K peer
\* links, all to its neighbour, and a middle switch 2K: the first K to the
\* switch before it, the next K to the switch after it.
LinkGroupsByPosition ==
    (pc = "done" /\ ~args.stack_ring) =>
        \A p \in 1..NumDps :
            LET links == StoredPeerLinks(SwitchAt(p))
                K == args.switch_to_switch_links
            IN  IF NumDps = 1 THEN links = << >>
                ELSE IF p = 1
                THEN Len(links) = K /\ AllLeadTo(links, 1, K, args.dpids[2])
                ELSE IF p = NumDps
                THEN Len(links) = K /\ AllLeadTo(links, 1, K, args.dpids[p - 1])
                ELSE /\ Len(links) = 2 * K
                     /\ AllLeadTo(links, 1, K, args.dpids[p - 1])
                     /\ AllLeadTo(links, K + 1, 2 * K, args.dpids[p + 1])

\* A chain of three with two links per group: the middle switch has four
\* peer links, two to either side
WitnessLinkGroupsByPosition ==
    /\ pc = "done"
    /\ ~args.stack_ring
    /\ NumDps = 3
    /\ args.switch_to_switch_links = 2
    /\ Len(StoredPeerLinks(SwitchAt(2))) = 4
    /\ StoredPeerLinks(SwitchAt(2))[2].peer_dpid = args.dpids[1]
    /\ StoredPeerLinks(SwitchAt(2))[3].peer_dpid = args.dpids[3]

\* ------------------------------------- claims on inter-switch ports ------
\* The port at index idx (from 0) of the port order
PortAt(idx) == start_port + port_order[idx + 1]

\* The links numbered first + 1 .. first + K stored under position p are the
\* links to position q, the j-th from index mine + j to index theirs + j
GroupIs(p, first, q, mine, theirs) ==
    LET links == StoredPeerLinks(SwitchAt(p))
        ports == switch_ports[SwitchAt(p)]
    IN  \A j \in 0..(args.switch_to_switch_links - 1) :
            /\ first + j + 1 \in DOMAIN links
            /\ links[first + j + 1] =
                  peer_link(PortAt(mine + j), args.dpids[q], PortAt(theirs + j))
            /\ ports[mine + j + 1] = PortAt(mine + j)

\* C21: with H host ports per switch and K links per group, the j-th link
\* between switch i and switch i+1 uses index H+j on switch i+1, and on
\* switch i index H+j when i = 0 and H+K+j when i > 0; the j-th link that
\* closes a ring of N >= 3 uses index H+K+j on switch 0 and on switch N-1.
PeerPortPrediction ==
    pc = "done" =>
        LET H == HostPorts
            K == args.switch_to_switch_links
        IN  /\ \A p \in 1..(NumDps - 1) :
                  /\ GroupIs(p, IF p = 1 THEN 0 ELSE K, p + 1,
                             IF p = 1 THEN H ELSE H + K, H)
                  /\ GroupIs(p + 1, 0, p, H, IF p = 1 THEN H ELSE H + K)
            /\ (args.stack_ring /\ NumDps >= 3) =>
                  /\ GroupIs(1, K, NumDps, H + K, H + K)
                  /\ GroupIs(NumDps, K, 1, H + K, H + K)

\* A ring of three with two links per group and the default port order:
\* the second ring link of switch 0 is its fourth peer link
WitnessPeerPortPrediction ==
    /\ pc = "done"
    /\ args.stack_ring
    /\ NumDps = 3
    /\ args.switch_to_switch_links = 2
    /\ ~args.port_order.given
    /\ HostPorts = 2
    /\ start_port = SWITCH_START_PORT
    /\ StoredPeerLinks(SwitchAt(1))[4] = peer_link(10, args.dpids[3], 10)
    /\ StoredPeerLinks(SwitchAt(2))[3] = peer_link(9, args.dpids[3], 7)

\* ------------------------------------------ claims on the serials --------
\* Requests answered so far when one is made per position: one for each
\* finished position, and one for the position whose prefix failed
RequestsAnswered ==
    IF pc = "failed" /\ err = StringIndexError THEN i ELSE i - 1

\* The serial of position p of dpids when the requests are made in dpids order
SerialOfPosition(p) == served - RequestsAnswered + (p - 1)

\* The host names of a pass of the chain build with the given prefix
ChainHostNames(sid_prefix) ==
    {_add_tagged_host(sid_prefix, h) : h \in 0..(args.n_tagged - 1)}
        \cup {_add_untagged_host(sid_prefix, h) : h \in 0..(args.n_untagged - 1)}

\* The build failed before it made a name in the pass for position i
FailedBeforeNaming ==
    pc = "failed" /\ err \in {"AllocatorError", StringIndexError}

\* Every finished position got the serial of its own request, and nothing
\* exists for the position whose request or prefix failed, nor for a later one
SerialsInDpidsOrder ==
    (pc \in {"loop", "ring", "done"} \/ FailedBeforeNaming) =>
        /\ DOMAIN dpid_names = {args.dpids[p] : p \in 1..(i - 1)}
        /\ DOMAIN mn_switches = {SwitchAt(p) : p \in 1..(i - 1)}
        /\ \A p \in 1..(i - 1) :
              SwitchAt(p) = "s" \o _get_sid_prefix(SerialOfPosition(p)).val
        /\ DOMAIN mn_hosts =
              UNION {ChainHostNames(_get_sid_prefix(SerialOfPosition(p)).val) :
                        p \in 1..(i - 1)}
        /\ pc \in {"ring", "done"} => i - 1 = NumDps

\* A serial is requested only by a pass of the loop, one per pass; a pass
\* that fails before naming creates nothing; after a failure nothing happens
NoRetryStep ==
    /\ pc # "failed"
    /\ served' # served => (pc = "loop" /\ served' = served + 1)
    /\ pc = "loop" =>
          \/ i' = i + 1 /\ served' = served + 1
          \/ pc' = "failed"
    /\ (pc = "loop" /\ FailedBeforeNaming') =>
          /\ i' = i
          /\ UNCHANGED << mn_hosts, mn_switches, dpid_names, switch_dpids,
                          switch_ports, switch_peer_links >>

\* C22: build requests one serial per entry of dpids, in dpids order, before
\* it makes the hosts and the switch of the entry, and never again; when a
\* request fails build fails, does not retry, and makes nothing for that
\* position or a later one.
OneSerialPerPosition == []SerialsInDpidsOrder /\ [][NoRetryStep]_vars

\* The request for the third position failed: two switches and their hosts
\* exist, and nothing of the third
WitnessOneSerialPerPosition ==
    /\ pc = "failed"
    /\ err = "AllocatorError"
    /\ NumDps = 3
    /\ i = 3
    /\ Cardinality(DOMAIN mn_switches) = 2
    /\ Cardinality(DOMAIN mn_hosts) = 6

\* ------------------------------------------ claims on host wiring --------
\* The hosts of a switch with the given prefix, in the order claimed: the
\* tagged, then the untagged, then the extended, each by ascending number
HostsInOrder(sid_prefix) ==
    [h \in 1..args.n_tagged |-> _add_tagged_host(sid_prefix, h - 1)]
        \o [h \in 1..args.n_untagged |-> _add_untagged_host(sid_prefix, h - 1)]
        \o [h \in 1..args.n_extended |-> _add_extended_host(sid_prefix, h - 1)]

\* The links made from the switch, in the order they were made
LinksFrom(switch) == SelectSeq(mn_links, LAMBDA l : l.node1 = switch)

PlaceIn(hosts, name) == CHOOSE k \in DOMAIN hosts : hosts[k] = name

\* The links of the switch go to its hosts in the order claimed, and when
\* each host has one link and the port order is the identity, the host at
\* place k (from 0) of that order is on port start_port + k
WiredInOrder(switch, sid_prefix) ==
    LET hosts == HostsInOrder(sid_prefix)
        links == LinksFrom(switch)
    IN  /\ \A k \in DOMAIN links : \E h \in DOMAIN hosts : hosts[h] = links[k].node2
        /\ \A a, b \in DOMAIN links :
              a < b => PlaceIn(hosts, links[a].node2) <= PlaceIn(hosts, links[b].node2)
        /\ (args.links_per_host = 1 /\ ~args.port_order.given) =>
              \A k \in DOMAIN links :
                  links[k] = [ node1 |-> switch, node2 |-> hosts[k],
                               port1 |-> start_port + (k - 1) ]
        /\ pc \in {"sloop", "done"} =>
              Len(links) = Len(hosts) * args.links_per_host

\* C23: on every switch the hosts are wired tagged first, then untagged,
\* then extended, each role by ascending host number; with the identity port
\* order and one link per host the tagged hosts are on offsets
\* 0..n_tagged-1 and the untagged hosts on the next n_untagged offsets.
FixedHostWiringOrder ==
    \A switch \in DOMAIN mn_switches :
        \E serial \in (served - NumDps)..(served - 1) :
            /\ serial >= 0
            /\ _get_sid_prefix(serial).err = ""
            /\ switch = "s" \o _get_sid_prefix(serial).val
            /\ WiredInOrder(switch, _get_sid_prefix(serial).val)

\* A switch with one tagged, two untagged and one extended host, one link
\* each, default ports: the second untagged host is on port 7, the extended
\* host on port 8
WitnessFixedHostWiringOrder ==
    /\ pc = "done"
    /\ args.n_tagged = 1
    /\ args.links_per_host = 1
    /\ start_port = SWITCH_START_PORT
    /\ ~args.port_order.given
    /\ LinksFrom("s00") =
          << [node1 |-> "s00", node2 |-> "t001", port1 |-> 5],
             [node1 |-> "s00", node2 |-> "u001", port1 |-> 6],
             [node1 |-> "s00", node2 |-> "u002", port1 |-> 7],
             [node1 |-> "s00", node2 |-> "e001", port1 |-> 8] >>

\* ------------------------------------ claims on the end of the range -----
\* C24 as stated: for a serial >= 3844 _get_sid_prefix returns a prefix that
\* some serial below 3844 has got.
PrefixAliasesAsClaimed ==
    (ret.op = "_get_sid_prefix" /\ ret.serial >= PrefixRange) =>
        /\ ret.res.err = ""
        /\ \E s2 \in 0..(PrefixRange - 1) : _get_sid_prefix(s2).val = ret.res.val

\* C24, amended: for a serial >= 3844 _get_sid_prefix raises IndexError
\* (id_chars[id_a] with id_a >= 62) and returns no prefix; so do the serials
\* that differ from it by a multiple of 3844.
PrefixRangeRaises ==
    (ret.op = "_get_sid_prefix" /\ ret.serial >= PrefixRange) =>
        /\ ret.res = Raise(StringIndexError)
        /\ \A k \in 1..Len(IdChars) :
              _get_sid_prefix(ret.serial + k * PrefixRange) = Raise(StringIndexError)

\* Serial 3844, the first beyond the range, has been asked for
WitnessPrefixRangeRaises ==
    /\ ret.op = "_get_sid_prefix"
    /\ ret.serial = PrefixRange
    /\ ret.res.err = StringIndexError

\* ------------------------------------------- claims on the queries, 2 ----
\* A step made after build leaves the tables and the remap context as they
\* were, and every query would answer after it what it answered before
QueryStepReadsOnly ==
    pc = "done" =>
        /\ UNCHANGED << dpid_names, switch_dpids, switch_ports,
                        switch_peer_links, hw_ports, start_port, port_order >>
        /\ \A dpid \in DOMAIN dpid_names :
              /\ dpid_ports(dpid)' = dpid_ports(dpid)
              /\ dpid_peer_links(dpid)' = dpid_peer_links(dpid)
              /\ \A port \in QueryLinkPorts :
                    /\ hw_remap_port(dpid, port)' = hw_remap_port(dpid, port)
                    /\ hw_remap_peer_link(dpid, peer_link(port, hw_dpid, port))'
                          = hw_remap_peer_link(dpid, peer_link(port, hw_dpid, port))

\* C25: calls of hw_remap_port, hw_remap_peer_link, dpid_ports and
\* dpid_peer_links after build leave dpid_names, switch_dpids, switch_ports,
\* switch_peer_links, hw_ports, start_port and port_order unchanged, so a
\* repeated query returns the same result.
QueriesReadOnly == [][QueryStepReadsOnly]_vars

\* The peer links of the hardware switch have been asked for and came back
\* remapped; the stored list still holds the ports of the build
WitnessQueriesReadOnly ==
    /\ pc = "done"
    /\ ret.op = "dpid_peer_links"
    /\ ret.dpid = hw_dpid
    /\ ret.res.err = ""
    /\ ret.res.val # << >>
    /\ ret.res.val # switch_peer_links[dpid_names[hw_dpid]]
    /\ dpid_peer_links(hw_dpid) = ret.res

\* ------------------------------------------ claims on edge cases ---------
\* C26: with pairwise distinct dpids the dpids of the emulated switches, the
\* hardware switch's being dpid + 1, are pairwise distinct (as claimed; with
\* hw_dpid and hw_dpid + 1 both in dpids two switches get hw_dpid + 1)
EmulatedDpidsDistinct ==
    \A a, b \in DOMAIN mn_switches :
        a # b => mn_switches[a].dpid # mn_switches[b].dpid

\* C27: after a chain build dpid_peer_links returns a list for every dpid of
\* dpids, the empty list for a switch without a switch-to-switch link (as
\* claimed; the only switch of a chain without ring has no entry in
\* switch_peer_links)
PeerLinksTotal ==
    pc = "done" =>
        \A p \in 1..NumDps :
            LET res == dpid_peer_links(args.dpids[p])
            IN  /\ res.err # "KeyError"
                /\ StoredPeerLinks(SwitchAt(p)) = << >> => res = Ok(<< >>)

NoDuplicates(seq) == \A a, b \in DOMAIN seq : a # b => seq[a] # seq[b]

\* C28: with the default port order, after a chain or ring build of one
\* switch or more no port is twice in a switch's port list and no link joins
\* a switch to itself (as claimed; a ring of one switch does both)
NoPortTwice ==
    (pc = "done" /\ ~args.port_order.given) =>
        /\ \A p \in 1..NumDps : NoDuplicates(switch_ports[SwitchAt(p)])
        /\ \A k \in DOMAIN mn_links : mn_links[k].node1 # mn_links[k].node2

\* C29: with hw_ports not empty, hw_remap_port(hw_dpid, port) fails for
\* every port outside start_port .. start_port + len(hw_ports) - 1 (as
\* claimed; a port just below start_port gets a port from the end of hw_ports)
RemapOutOfRangeFails ==
    ( /\ ret.op = "hw_remap_port"
      /\ hw_dpid # None
      /\ ret.dpid = hw_dpid
      /\ hw_ports # << >>
      /\ \/ ret.port < start_port
         \/ ret.port > start_port + Len(hw_ports) - 1 ) =>
        ret.res.err # ""

\* C30: a seed without a repeated value is extended to a sequence without a
\* repeated value (as claimed; the values appended are len(seed) .. max_length,
\* whatever the seed holds)
ExtendKeepsDuplicateFree ==
    (ret.op = "extend_port_order" /\ NoDuplicates(ret.seed.order)) =>
        NoDuplicates(ret.res)

====
